---- MODULE Spec2Model ----
(***************************************************************************)
(* Social memory plugin (src/plugin.py): the per-user affection ledger,    *)
(* the bond unlock rules and the memory store, as a state machine over the *)
(* key-value store the handlers load from and save to.                     *)
(*                                                                         *)
(* Time is counted in ticks of 1/TicksPerSecond second, so that            *)
(* int(time.time()) truncates and time.time() > expires_at compares a      *)
(* fractional clock with a whole number of seconds, as in the source.      *)
(* Fields no handler ever reads back (description, context, tags,          *)
(* source_chat_key) are left out of the records.                           *)
(***************************************************************************)
EXTENDS Integers, Sequences, FiniteSets, TLC

VARIABLES config, now, store, lastCall, crisisSeen, tasks

vars == <<config, now, store, lastCall, crisisSeen, tasks>>

(***************************************************************************)
(* Bounds of the model.                                                    *)
(***************************************************************************)
\* ticks per second of the model clock
TicksPerSecond == 2
\* the clock runs over days 0..MaxDays
MaxDays == 1
\* affection calls on a user stop once total_positive + total_negative reaches this
MaxActivity == 50
\* ... or once the stored history holds this many events
MaxStoredEvents == 4
\* the tasks of the concurrent specification make at most this many calls together
MaxCalls == 3

Users == {"u1", "u2"}

SecondsPerDay == 24 * 60 * 60

\* the instants the clock takes: the start of a day, and one tick (a fraction of
\* a second) after it
Times ==
  { (d * SecondsPerDay * TicksPerSecond) + s : d \in 0..MaxDays, s \in {0, 1} }

\* the instants within the first second
FirstSecond == { t \in Times : t < TicksPerSecond }

\* a text that matches a pattern of preference and one of habit
LikeOften == <<"I", " ", "l", "i", "k", "e", " ", "O", "f", "t", "e", "n">>

\* inputs the calls are tried with
AffectionCalls ==
  { [op |-> "record_affection_event", change_amount |-> c, event_type |-> "positive"] :
      c \in {-150, 10, 150} }
    \cup
  { [op |-> "record_affection_event", change_amount |-> c, event_type |-> "crisis"] :
      c \in {-150, 5} }
AllCalls ==
  { [op |-> "record_affection_event", change_amount |-> 5, event_type |-> "crisis"],
    [op |-> "record_affection_event", change_amount |-> 5, event_type |-> "positive"],
    [op |-> "record_affection_event", change_amount |-> -150, event_type |-> "positive"],
    [op |-> "record_user_memory", memory_type |-> "preference", content |-> <<"a">>,
     importance |-> 4],
    [op |-> "get_affection_state"] }
MemoryCalls ==
  { [op |-> "record_user_memory", memory_type |-> "preference", content |-> <<"a">>,
     importance |-> 4],
    [op |-> "record_user_memory", memory_type |-> "note", content |-> <<"a">>,
     importance |-> 50] }
InjectCalls ==
  { [op |-> "record_user_memory", memory_type |-> "habit", content |-> LikeOften,
     importance |-> -3],
    [op |-> "record_user_memory", memory_type |-> "preference", content |-> LikeOften,
     importance |-> 8],
    [op |-> "record_user_memory", memory_type |-> "note", content |-> <<"a">>,
     importance |-> 8],
    [op |-> "record_user_memory", memory_type |-> "note", content |-> <<"a">>,
     importance |-> 50] }

\* the user messages auto_extract is tried with: a text that matches two
\* pattern groups, one that matches none, and a message without sender
Messages ==
  { [sender_id |-> "u1", content_text |-> LikeOften],
    [sender_id |-> "u1", content_text |-> <<"a">>],
    [sender_id |-> "", content_text |-> LikeOften] }

\* configurations the plugin is tried under
MaxHistoryChoices == {0, 2, 3}
DefaultAffectionChoices == {-90, 0, 70}
MinImportanceChoices == {0, 5}
MaxInjectedChoices == {0, 1, 2}

(***************************************************************************)
(* Helpers standing for Python built-ins.                                  *)
(***************************************************************************)
Max(a, b) == IF a >= b THEN a ELSE b
Min(a, b) == IF a <= b THEN a ELSE b
Abs(a) == IF a < 0 THEN -a ELSE a

\* int(time.time())
IntTime(t) == t \div TicksPerSecond

\* s[-n:] of a Python list
PyLast(s, n) ==
  LET start == IF n > 0 THEN Max(Len(s) - n, 0) ELSE Min(-n, Len(s))
  IN  SubSeq(s, start + 1, Len(s))

\* s[:n] of a Python list
PyFirst(s, n) ==
  LET stop == IF n >= 0 THEN Min(n, Len(s)) ELSE Max(Len(s) + n, 0)
  IN  SubSeq(s, 1, stop)

(***************************************************************************)
(* Data model.                                                             *)
(***************************************************************************)
\* BOND_DEFINITIONS, in catalog (dict) order
BondOrder ==
  <<"first_meet", "shared_laugh", "deep_conversation", "trusted_confidant",
    "storm_together", "heart_to_heart">>

BondIds == { BondOrder[i] : i \in 1..Len(BondOrder) }

NoBonds == [b \in {} |-> FALSE]

\* AffectionEvent.create
AffectionEvent_create(change_amount, event_type, t) ==
  [timestamp |-> IntTime(t), change_amount |-> change_amount, event_type |-> event_type]

\* BondStatus.create
BondStatus_create(bond_id) ==
  [bond_id |-> bond_id, unlocked |-> FALSE, unlock_time |-> 0]

\* UserAffection.create
UserAffection_create(user_id, initial_affection, t) ==
  [user_id |-> user_id,
   affection_value |-> initial_affection,
   total_positive |-> 0,
   total_negative |-> 0,
   first_met_time |-> IntTime(t),
   last_interaction_time |-> IntTime(t),
   events |-> <<>>,
   bonds |-> NoBonds]

\* SocialData.create
SocialData_create(user_id, initial_affection, t) ==
  [affection |-> UserAffection_create(user_id, initial_affection, t),
   memories |-> <<>>]

\* UserAffection.add_event
add_event(aff, event, max_events) ==
  [aff EXCEPT
     !.events = PyLast(Append(aff.events, event), max_events),
     !.last_interaction_time = event.timestamp,
     !.total_positive =
        IF event.change_amount > 0 THEN @ + event.change_amount ELSE @,
     !.total_negative =
        IF event.change_amount < 0 THEN @ + Abs(event.change_amount) ELSE @]

\* mutant of get_tier: the friend band starts at 10
get_tier_FriendAt10(value) ==
  IF value >= 81 THEN "soulmate"
  ELSE IF value >= 51 THEN "close_friend"
  ELSE IF value >= 10 THEN "friend"
  ELSE IF value >= -19 THEN "acquaintance"
  ELSE IF value >= -59 THEN "stranger"
  ELSE "enemy"

\* UserAffection.get_tier, on the value
get_tier(value) ==
  IF value >= 81 THEN "soulmate"
  ELSE IF value >= 51 THEN "close_friend"
  ELSE IF value >= 11 THEN "friend"
  ELSE IF value >= -19 THEN "acquaintance"
  ELSE IF value >= -59 THEN "stranger"
  ELSE "enemy"

\* UserAffection.get_unlocked_bonds: the unlocked ids, in dict order
get_unlocked_bonds(aff) ==
  SelectSeq(BondOrder, LAMBDA b : b \in DOMAIN aff.bonds /\ aff.bonds[b].unlocked)

(***************************************************************************)
(* Store.                                                                  *)
(***************************************************************************)
NoStore == [u \in {} |-> 0]

\* SocialData.model_dump_json: the blob written under store_key "social_data"
model_dump_json(data) ==
  [affection |-> data.affection, memories |-> data.memories]

\* SocialData.model_validate_json
model_validate_json(blob) ==
  [affection |-> blob.affection, memories |-> blob.memories]

\* mutant of get_social_data: the fresh profile starts at affection 0
get_social_data_ZeroDefault(user_id) ==
  IF user_id \in DOMAIN store
    THEN model_validate_json(store[user_id])
    ELSE SocialData_create(user_id, 0, now)

\* get_social_data: the stored profile, or a fresh one for an unseen user
get_social_data(user_id) ==
  IF user_id \in DOMAIN store
    THEN model_validate_json(store[user_id])
    ELSE SocialData_create(user_id, config.DEFAULT_AFFECTION, now)

\* mutant of save_social_data: the store holds one blob, that of the last saver
save_social_data_OneBlob(user_id, data) ==
  [u \in {user_id} |-> model_dump_json(data)]

\* save_social_data: the store after the write
save_social_data(user_id, data) ==
  [u \in (DOMAIN store) \cup {user_id} |->
     IF u = user_id THEN model_dump_json(data) ELSE store[u]]

(***************************************************************************)
(* record_affection_event.                                                 *)
(***************************************************************************)
\* mutant of ClampChange: the change is applied as given
ClampChange_Off(change_amount) == change_amount

\* max(-20, min(20, change_amount))
ClampChange(change_amount) == Max(-20, Min(20, change_amount))

\* mutant of ClampAffection: the upper bound is not applied
ClampAffection_NoUpper(value) == Max(-100, value)

\* max(-100, min(100, value))
ClampAffection(value) == Max(-100, Min(100, value))

\* BOND_DEFINITIONS[bond_id]["condition"]
BondCondition(bond_id) ==
  CASE bond_id = "first_meet" -> "always"
    [] bond_id = "shared_laugh" -> "event_count_positive >= 5"
    [] bond_id = "deep_conversation" -> "event_count_positive >= 10"
    [] bond_id = "trusted_confidant" -> "event_count_positive >= 20"
    [] bond_id = "storm_together" -> "event_type_crisis >= 3"
    [] bond_id = "heart_to_heart" -> "affection >= 80"

\* mutant of crisis_count: crisis events count whatever their sign
crisis_count_AnySign(events) ==
  Cardinality({ i \in 1..Len(events) : events[i].event_type = "crisis" })

\* sum(1 for e in aff.events if e.event_type == "crisis" and e.change_amount > 0)
crisis_count(events) ==
  Cardinality({ i \in 1..Len(events) :
                  events[i].event_type = "crisis" /\ events[i].change_amount > 0 })

\* mutant of should_unlock: the count bonds need more than their threshold
should_unlock_Strict(aff, bond_id) ==
  LET cond == BondCondition(bond_id)
  IN  IF cond = "always" THEN TRUE
      ELSE IF cond = "affection >= 80" THEN aff.affection_value >= 80
      ELSE IF cond = "event_count_positive >= 5" THEN aff.total_positive > 5
      ELSE IF cond = "event_count_positive >= 10" THEN aff.total_positive > 10
      ELSE IF cond = "event_count_positive >= 20" THEN aff.total_positive > 20
      ELSE IF cond = "event_type_crisis >= 3" THEN crisis_count(aff.events) >= 3
      ELSE FALSE

\* the should_unlock chain of record_affection_event
should_unlock(aff, bond_id) ==
  LET cond == BondCondition(bond_id)
  IN  IF cond = "always" THEN TRUE
      ELSE IF cond = "affection >= 80" THEN aff.affection_value >= 80
      ELSE IF cond = "event_count_positive >= 5" THEN aff.total_positive >= 5
      ELSE IF cond = "event_count_positive >= 10" THEN aff.total_positive >= 10
      ELSE IF cond = "event_count_positive >= 20" THEN aff.total_positive >= 20
      ELSE IF cond = "event_type_crisis >= 3" THEN crisis_count(aff.events) >= 3
      ELSE FALSE

\* mutant of check_bond: unlocked bonds are evaluated again
check_bond_Recheck(aff, status, bond_id, t) ==
  [status EXCEPT !.unlocked = should_unlock(aff, bond_id), !.unlock_time = IntTime(t)]

\* one pass of the bond loop: the status of bond_id after it
check_bond(aff, status, bond_id, t) ==
  IF ~status.unlocked /\ should_unlock(aff, bond_id)
    THEN [status EXCEPT !.unlocked = TRUE, !.unlock_time = IntTime(t)]
    ELSE status

\* mutant of check_bonds: every status is created anew before it is evaluated
check_bonds_Anew(aff, t) ==
  [b \in BondIds |-> check_bond(aff, BondStatus_create(b), b, t)]

\* the bond loop: missing statuses are created, locked ones are evaluated
check_bonds(aff, t) ==
  [b \in BondIds |->
     check_bond(aff,
                IF b \in DOMAIN aff.bonds THEN aff.bonds[b] ELSE BondStatus_create(b),
                b, t)]

\* mutant of newly_unlocked: every bond found unlocked after the loop is reported
newly_unlocked_All(old_bonds, new_bonds) ==
  SelectSeq(BondOrder, LAMBDA b : b \in DOMAIN new_bonds /\ new_bonds[b].unlocked)

\* the ids the bond loop appended to unlocked_bonds
newly_unlocked(old_bonds, new_bonds) ==
  SelectSeq(BondOrder,
            LAMBDA b : /\ b \in DOMAIN new_bonds
                       /\ new_bonds[b].unlocked
                       /\ ~(b \in DOMAIN old_bonds /\ old_bonds[b].unlocked))

\* mutant of record_affection_event: the bond loop runs whatever the configuration
record_affection_event_BondsAlways(social_data, change_amount, event_type, t) ==
  LET change   == ClampChange(change_amount)
      old_tier == get_tier(social_data.affection.affection_value)
      event    == AffectionEvent_create(change, event_type, t)
      aff1     == add_event(social_data.affection, event, config.MAX_HISTORY_EVENTS)
      aff2     == [aff1 EXCEPT
                     !.affection_value = ClampAffection(aff1.affection_value + change)]
      new_tier == get_tier(aff2.affection_value)
      aff3     == [aff2 EXCEPT !.bonds = check_bonds(aff2, t)]
  IN  [data |-> [social_data EXCEPT !.affection = aff3],
       ret  |-> [success |-> TRUE,
                 new_affection |-> aff3.affection_value,
                 tier_changed |-> old_tier # new_tier,
                 new_tier |-> new_tier,
                 unlocked_bonds |-> newly_unlocked(aff2.bonds, aff3.bonds)]]

\* record_affection_event without its store accesses: the profile to save and
\* the returned dict, from the loaded profile
record_affection_event(social_data, change_amount, event_type, t) ==
  LET change   == ClampChange(change_amount)
      old_tier == get_tier(social_data.affection.affection_value)
      event    == AffectionEvent_create(change, event_type, t)
      aff1     == add_event(social_data.affection, event, config.MAX_HISTORY_EVENTS)
      aff2     == [aff1 EXCEPT
                     !.affection_value = ClampAffection(aff1.affection_value + change)]
      new_tier == get_tier(aff2.affection_value)
      aff3     == IF config.ENABLE_BOND_SYSTEM
                    THEN [aff2 EXCEPT !.bonds = check_bonds(aff2, t)]
                    ELSE aff2
  IN  [data |-> [social_data EXCEPT !.affection = aff3],
       ret  |-> [success |-> TRUE,
                 new_affection |-> aff3.affection_value,
                 tier_changed |-> old_tier # new_tier,
                 new_tier |-> new_tier,
                 unlocked_bonds |-> newly_unlocked(aff2.bonds, aff3.bonds)]]

\* round(n / d) to the nearest integer, ties to the even one, for d > 0
round_half_even(n, d) ==
  LET q == n \div d
      r == n % d
  IN  IF 2 * r < d THEN q
      ELSE IF 2 * r > d THEN q + 1
      ELSE IF q % 2 = 0 THEN q ELSE q + 1

\* the affection values whose float affection_value / 80 * 100 misses the tie
\* it stands for, so that round(..., 1) goes the other way than to the even digit
FloatTieOff == {-93, -87, -51, -49, -23, 23, 49, 51}

\* mutant of progress_percent: the fraction is not capped at 1.0
progress_percent_NoCap(value, threshold) ==
  round_half_even(1000 * value, threshold)

\* round(min(1.0, value / threshold) * 100, 1), in tenths of a percent
progress_percent(value, threshold) ==
  LET n == Min(1000 * value, 1000 * threshold)
      even == round_half_even(n, threshold)
      q == n \div threshold
  IN  IF threshold = 80 /\ value \in FloatTieOff
        THEN (IF even = q THEN q + 1 ELSE q)
        ELSE even

\* the progress chain of get_bond_info, in tenths of a percent
bond_progress(aff, bond_id) ==
  LET cond == BondCondition(bond_id)
  IN  IF cond = "always" THEN 1000
      ELSE IF cond = "affection >= 80" THEN progress_percent(aff.affection_value, 80)
      ELSE IF cond = "event_count_positive >= 5" THEN progress_percent(aff.total_positive, 5)
      ELSE IF cond = "event_count_positive >= 10" THEN progress_percent(aff.total_positive, 10)
      ELSE IF cond = "event_count_positive >= 20" THEN progress_percent(aff.total_positive, 20)
      ELSE IF cond = "event_type_crisis >= 3" THEN progress_percent(crisis_count(aff.events), 3)
      ELSE 0

\* get_bond_info, on the loaded profile: missing statuses are created in the
\* loaded copy (data), which the handler does not save
get_bond_info(social_data) ==
  LET aff == social_data.affection
      bonds == [b \in BondIds |->
                  IF b \in DOMAIN aff.bonds THEN aff.bonds[b] ELSE BondStatus_create(b)]
      bonds_data == [k \in 1..Len(BondOrder) |->
                       [bond_id |-> BondOrder[k],
                        unlocked |-> bonds[BondOrder[k]].unlocked,
                        progress |-> bond_progress(aff, BondOrder[k])]]
  IN  [data |-> [social_data EXCEPT !.affection.bonds = bonds],
       ret  |-> [total_bonds |-> Len(BondOrder),
                 unlocked_count |->
                   Cardinality({ k \in 1..Len(bonds_data) : bonds_data[k].unlocked }),
                 bonds |-> bonds_data]]

\* get_affection_state, on the loaded profile
get_affection_state(user_id, social_data) ==
  LET aff == social_data.affection
  IN  [user_id |-> user_id,
       affection_value |-> aff.affection_value,
       tier |-> get_tier(aff.affection_value),
       total_positive |-> aff.total_positive,
       total_negative |-> aff.total_negative,
       unlocked_bonds |-> get_unlocked_bonds(aff)]

\* the bonds section of social_memory_prompt_inject: the ids whose names it
\* lists, none when the section is not emitted
bonds_section(social_data) ==
  IF config.ENABLE_BOND_SYSTEM
    THEN SelectSeq(get_unlocked_bonds(social_data.affection),
                   LAMBDA b : b \in BondIds)
    ELSE <<>>

\* recorded crisis events with a positive applied change, over the user's lifetime
CountCrisis(seen, user_id, change_amount, event_type) ==
  [seen EXCEPT ![user_id] =
     IF event_type = "crisis" /\ ClampChange(change_amount) > 0 THEN @ + 1 ELSE @]

\* total_positive + total_negative of the profile a call on user_id would load
Activity(user_id) ==
  get_social_data(user_id).affection.total_positive
    + get_social_data(user_id).affection.total_negative

\* the plugin is configured anew: the bond system is switched on or off
Reconfigure ==
  /\ config' = [config EXCEPT !.ENABLE_BOND_SYSTEM = ~@]
  /\ UNCHANGED <<now, store, lastCall, crisisSeen, tasks>>

\* time passes
Tick ==
  /\ \E t \in Times : t > now /\ now' = t
  /\ UNCHANGED <<config, store, lastCall, crisisSeen, tasks>>

(***************************************************************************)
(* Memory store.  social_data.memories is a dict: here the sequence of its *)
(* values in insertion order, each value carrying its key (memory_id).     *)
(***************************************************************************)
\* generate_id: the md5 of "user:content:time", taken as injective
generate_id(prefix, user_id, content, t) ==
  [prefix |-> prefix, user_id |-> user_id, content |-> content, time |-> t]

\* UserMemory.create
UserMemory_create(memory_id, memory_type, content, importance, retention_days, t) ==
  [memory_id |-> memory_id,
   memory_type |-> memory_type,
   content |-> content,
   importance |-> Max(0, Min(10, importance)),
   created_at |-> IntTime(t),
   expires_at |-> IntTime(t) + (retention_days * 24 * 60 * 60)]

\* UserMemory.is_expired: time.time() > self.expires_at
is_expired(mem, t) == t > mem.expires_at * TicksPerSecond

\* mutant of expired_before: a record is dropped at its expiry instant already
expired_before_Inclusive(mem, t) == mem.expires_at * TicksPerSecond <= t

\* mem.expires_at < now, the test of the query, search and summary loops
expired_before(mem, t) == mem.expires_at * TicksPerSecond < t

\* memories[memory_id] = memory
dict_set(memories, memory_id, memory) ==
  IF \E i \in 1..Len(memories) : memories[i].memory_id = memory_id
    THEN [i \in 1..Len(memories) |->
            IF memories[i].memory_id = memory_id THEN memory ELSE memories[i]]
    ELSE Append(memories, memory)

\* mutant of find_content: the scan finds nothing
find_content_None(memories, content) == 0

\* the first record of the scan with mem.content == content (0 when none)
find_content(memories, content) ==
  LET hits == { i \in 1..Len(memories) : memories[i].content = content }
  IN  IF hits = {} THEN 0 ELSE CHOOSE i \in hits : \A j \in hits : i <= j

\* the merge branch: importance is raised when the new one is greater
merge_importance(mem, importance) ==
  [mem EXCEPT !.importance = IF importance > @ THEN importance ELSE @]

\* record_user_memory without its store accesses: the profile to save and the
\* returned dict ("updated" and "recorded" stand for the two messages); the id
\* is generated at id_time, before the load, the record is created at t
record_user_memory_at(social_data, user_id, memory_type, content, importance, id_time, t) ==
  LET memory_id == generate_id("mem", user_id, content, id_time)
      found     == find_content(social_data.memories, content)
  IN  IF found # 0
        THEN [data |-> [social_data EXCEPT
                          !.memories[found] = merge_importance(@, importance)],
              ret  |-> [memory_id |-> social_data.memories[found].memory_id,
                        success |-> TRUE, message |-> "updated"]]
        ELSE [data |-> [social_data EXCEPT
                          !.memories =
                             dict_set(@, memory_id,
                                      UserMemory_create(memory_id, memory_type, content,
                                                        importance,
                                                        config.RETENTION_DAYS, t))],
              ret  |-> [memory_id |-> memory_id,
                        success |-> TRUE, message |-> "recorded"]]

\* mutant of key_le: among equal importance the older record sorts first, in
\* the results of query_user_memory and in the memory section of the prompt
key_le_OldestFirst(a, b) ==
  \/ a.importance > b.importance
  \/ a.importance = b.importance /\ a.created_at <= b.created_at

\* key=lambda x: (-x.importance, -x.created_at): a sorts no later than b
key_le(a, b) ==
  \/ a.importance > b.importance
  \/ a.importance = b.importance /\ a.created_at >= b.created_at

\* one step of the stable sort: m goes behind every record sorting no later
sort_insert(sorted, m) ==
  LET k == Cardinality({ i \in 1..Len(sorted) : key_le(sorted[i], m) })
  IN  SubSeq(sorted, 1, k) \o <<m>> \o SubSeq(sorted, k + 1, Len(sorted))

\* list.sort(key=lambda x: (-x.importance, -x.created_at))
RECURSIVE sort_memories(_)
sort_memories(mems) ==
  IF mems = <<>> THEN <<>>
  ELSE sort_insert(sort_memories(SubSeq(mems, 1, Len(mems) - 1)), mems[Len(mems)])

\* the filter loop of query_user_memory; an empty memory_types is no filter
query_filter(mems, memory_types, min_importance, t) ==
  SelectSeq(mems,
            LAMBDA m : /\ ~expired_before(m, t)
                       /\ (memory_types = {} \/ m.memory_type \in memory_types)
                       /\ ~(m.importance < min_importance))

\* query_user_memory, on the loaded profile
query_user_memory(social_data, memory_types, min_importance, limit, t) ==
  PyFirst(sort_memories(query_filter(social_data.memories, memory_types,
                                     min_importance, t)),
          limit)

\* the letters str.lower() changes, each with what it changes it to
LowerCase ==
  [A |-> "a", B |-> "b", C |-> "c", D |-> "d", E |-> "e", F |-> "f", G |-> "g",
   H |-> "h", I |-> "i", J |-> "j", K |-> "k", L |-> "l", M |-> "m", N |-> "n",
   O |-> "o", P |-> "p", Q |-> "q", R |-> "r", S |-> "s", T |-> "t", U |-> "u",
   V |-> "v", W |-> "w", X |-> "x", Y |-> "y", Z |-> "z"]

\* str.lower() on one character
lower_char(c) == IF c \in DOMAIN LowerCase THEN LowerCase[c] ELSE c

lower(str) == [i \in 1..Len(str) |-> lower_char(str[i])]

\* sub in str
contains(sub, str) ==
  \E i \in 1..(Len(str) - Len(sub) + 1) : SubSeq(str, i, i + Len(sub) - 1) = sub

\* the loop of search_user_memory from record i on, results collected so far
RECURSIVE search_loop(_, _, _, _, _, _, _)
search_loop(mems, i, results, keyword, memory_types, limit, t) ==
  IF i > Len(mems) THEN results
  ELSE IF expired_before(mems[i], t)
         THEN search_loop(mems, i + 1, results, keyword, memory_types, limit, t)
  ELSE IF memory_types # {} /\ mems[i].memory_type \notin memory_types
         THEN search_loop(mems, i + 1, results, keyword, memory_types, limit, t)
  ELSE LET r == IF contains(lower(keyword), lower(mems[i].content))
                  THEN Append(results, mems[i]) ELSE results
       IN  IF Len(r) >= limit THEN r
           ELSE search_loop(mems, i + 1, r, keyword, memory_types, limit, t)

\* search_user_memory, on the loaded profile
search_user_memory(social_data, keyword, memory_types, limit, t) ==
  search_loop(social_data.memories, 1, <<>>, keyword, memory_types, limit, t)

\* the memory section of social_memory_prompt_inject: the records it lists
inject_memories(social_data, t) ==
  PyFirst(sort_memories(
            SelectSeq(social_data.memories,
                      LAMBDA m : /\ ~is_expired(m, t)
                                 /\ m.importance >= config.MIN_IMPORTANCE_SCORE)),
          config.MAX_INJECTED_MEMORIES)

\* get_interaction_history, on the loaded profile: the dicts of events[-limit:]
get_interaction_history(social_data, limit) ==
  LET recent == PyLast(social_data.affection.events, limit)
  IN [k \in 1..Len(recent) |->
        [timestamp |-> recent[k].timestamp,
         change_amount |-> recent[k].change_amount,
         event_type |-> recent[k].event_type]]

\* type_names of the memory section (the labels are transliterated)
type_names ==
  [preference |-> "pianhao", personal_info |-> "xinxi", commitment |-> "yueding",
   interest |-> "xingqu", habit |-> "xiguan"]

\* the memory section of social_memory_prompt_inject: its lines, none when no
\* record is listed; the stars are n * "full" and (10 - n) * "empty", a
\* negative repeat count giving the empty string
memory_section(social_data, t) ==
  LET valid_memories == inject_memories(social_data, t)
  IN IF valid_memories = <<>> THEN <<>>
     ELSE <<[kind |-> "header", text |-> "### yonghu jiyi:"]>> \o
          [k \in 1..Len(valid_memories) |->
             LET mem == valid_memories[k]
             IN [kind |-> "memory",
                 type_name |-> IF mem.memory_type \in DOMAIN type_names
                               THEN type_names[mem.memory_type]
                               ELSE mem.memory_type,
                 content |-> mem.content,
                 full_stars |-> Max(mem.importance, 0),
                 empty_stars |-> Max(10 - mem.importance, 0)]]

\* the memory types get_user_summary starts its per-type counts with
SummaryTypes ==
  {"preference", "personal_info", "commitment", "interest", "habit", "custom"}

\* get_user_summary, on the loaded profile: by_type starts from the six types
\* of SummaryTypes and gets a key for another type only when a record with
\* expires_at >= now is counted; total_memories is the length of the stored map
get_user_summary(social_data, t) ==
  LET mems == social_data.memories
      live  == { i \in 1..Len(mems) : ~expired_before(mems[i], t) }
      types == SummaryTypes \cup { mems[i].memory_type : i \in live }
  IN [ total_memories |-> Len(mems),
       by_type |->
         [ ty \in types |->
             Cardinality({ i \in live : mems[i].memory_type = ty }) ],
       affection |-> social_data.affection.affection_value,
       tier |-> get_tier(social_data.affection.affection_value),
       total_events |-> Len(social_data.affection.events),
       unlocked_bonds |-> get_unlocked_bonds(social_data.affection) ]

(***************************************************************************)
(* auto_extract: the handler of user messages.  A text is a sequence of    *)
(* characters; the texts of the model are ASCII, so of each regular        *)
(* expression the alternatives an ASCII text can match are kept, one       *)
(* literal per alternative.                                                *)
(***************************************************************************)
\* the memory types of EXTRACT_PATTERNS, in the order of the dict
ExtractTypes == <<"preference", "personal_info", "commitment", "interest", "habit">>

\* EXTRACT_PATTERNS: per memory type the literals its patterns match
EXTRACT_PATTERNS ==
  [preference |->
     { <<"I", " ", "p", "r", "e", "f", "e", "r">>,
       <<"I", " ", "l", "i", "k", "e">>,
       <<"I", " ", "e", "n", "j", "o", "y">>,
       <<"I", " ", "h", "a", "t", "e">> },
   personal_info |->
     { <<"M", "y", " ", "e", "m", "a", "i", "l">>,
       <<"M", "y", " ", "p", "h", "o", "n", "e">>,
       <<"M", "y", " ", "n", "a", "m", "e">> },
   commitment |->
     { <<"I", " ", "w", "i", "l", "l">>,
       <<"r", "e", "m", "e", "m", "b", "e", "r", " ", "t", "o">> },
   interest |->
     { <<"i", "n", "t", "e", "r", "e", "s", "t", "e", "d", " ", "i", "n">>,
       <<"i", "n", "t", "e", "r", "e", "s", "t", "d", " ", "i", "n">> },
   habit |->
     { <<"u", "s", "u", "a", "l", "l", "y">>,
       <<"o", "f", "t", "e", "n">> }]

\* re.search(pattern, content, re.IGNORECASE) for a literal pattern
re_search(pattern, content) == contains(lower(pattern), lower(content))

\* default_importance of auto_extract, per memory type
default_importance ==
  [personal_info |-> 10, commitment |-> 7, preference |-> 6, interest |-> 5, habit |-> 4]

\* the loop of auto_extract: the calls of record_user_memory it makes, one per
\* memory type with a matching pattern, in the order of EXTRACT_PATTERNS
extract_calls(content) ==
  LET matched == SelectSeq(ExtractTypes,
                           LAMBDA ty : \E pat \in EXTRACT_PATTERNS[ty] :
                                         re_search(pat, content))
  IN [k \in 1..Len(matched) |->
        [op |-> "record_user_memory", memory_type |-> matched[k],
         content |-> PyFirst(content, 200),
         importance |-> default_importance[matched[k]] - 2]]

\* auto_extract up to its first await: nothing to do without a text or a sender
auto_extract(message) ==
  IF message.content_text = <<>> \/ message.sender_id = ""
    THEN <<>>
    ELSE extract_calls(message.content_text)

(***************************************************************************)
(* Handlers as coroutines.  A handler runs up to await store.get, goes on  *)
(* when the load answers, and a mutating handler then updates the loaded   *)
(* profile without awaiting and awaits store.set; other tasks of the event *)
(* loop run, and time passes, while it awaits.  store.get and store.set    *)
(* may raise, which ends the handler with the exception.                   *)
(***************************************************************************)
Tasks == {"t1", "t2"}

NoProfile == [some |-> FALSE]
SomeProfile(social_data) == [some |-> TRUE, data |-> social_data]

\* a handler that has not updated a profile since its last save
NoResult == [ret |-> [success |-> FALSE]]

\* the handlers that only read the profile
ReadOps == {"get_affection_state", "get_bond_info"}

\* a task before its first call, calling for user_id.  outer is the message
\* handler it runs (none when a sandbox method is called directly), call the
\* sandbox method it is in, todo the calls auto_extract has still to make,
\* loaded the profile its load returned, result the updated profile and the
\* value to return, ret what its last handler returned, calls the number of its
\* calls (counted up to MaxCalls), solo the profile the calls of this task
\* alone, run one after the other, would have saved
IdleTask(user_id) ==
  [user_id |-> user_id, pc |-> "idle", outer |-> [op |-> "none"],
   call |-> [op |-> "none"], todo |-> <<>>, id_time |-> 0,
   loaded |-> NoProfile, t_load |-> 0, result |-> NoResult, writes |-> 0, calls |-> 0,
   fault |-> "none", solo |-> NoProfile, ret |-> [success |-> FALSE]]

\* the body of the called mutating handler between its load and its save
handler(call, social_data, user_id, id_time, t) ==
  IF call.op = "record_affection_event"
    THEN record_affection_event(social_data, call.change_amount, call.event_type, t)
    ELSE record_user_memory_at(social_data, user_id, call.memory_type, call.content,
                               call.importance, id_time, t)

\* the body of the called reading handler after its load: what it returns
read_handler(call, social_data, user_id) ==
  IF call.op = "get_affection_state"
    THEN get_affection_state(user_id, social_data)
    ELSE get_bond_info(social_data).ret

\* the call and what it returned
returned(call, user_id, ret) ==
  IF call.op = "record_affection_event"
    THEN [op |-> call.op, user_id |-> user_id, change_amount |-> call.change_amount,
          event_type |-> call.event_type, ret |-> ret]
  ELSE IF call.op = "record_user_memory"
    THEN [op |-> call.op, user_id |-> user_id, memory_type |-> call.memory_type,
          content |-> call.content, importance |-> call.importance, ret |-> ret]
  ELSE [op |-> call.op, user_id |-> user_id, ret |-> ret]

\* the handler calls made so far
RECURSIVE SumCalls(_)
SumCalls(ps) ==
  IF ps = {} THEN 0
  ELSE LET p == CHOOSE q \in ps : TRUE IN tasks[p].calls + SumCalls(ps \ {p})

CallsMade == SumCalls(Tasks)

\* the stored ledger of user_id is within the bounds of the model
WithinBounds(user_id) ==
  /\ Activity(user_id) < MaxActivity
  /\ Len(get_social_data(user_id).affection.events) < MaxStoredEvents

\* a sandbox method is entered and runs up to await store.get;
\* record_user_memory has generated its memory_id by then
Call(p, call) ==
  /\ tasks[p].pc \in {"idle", "done", "failed"}
  /\ tasks' = [tasks EXCEPT ![p] =
                 [@ EXCEPT !.pc = "load", !.outer = [op |-> "none"],
                           !.call = call, !.todo = <<>>,
                           !.id_time = IF call.op = "record_user_memory" THEN now ELSE 0,
                           !.writes = 0, !.fault = "none",
                           !.calls = Min(@ + 1, MaxCalls),
                           !.ret = [success |-> FALSE]]]
  /\ UNCHANGED <<config, now, store, lastCall, crisisSeen>>

\* auto_extract is entered with a message of the user of task p (or of no
\* sender): it returns CONTINUE at once when no pattern matches, and otherwise
\* enters its first call of record_user_memory, up to await store.get
AutoExtract(p, message) ==
  /\ tasks[p].pc \in {"idle", "done", "failed"}
  /\ message.sender_id \in {"", tasks[p].user_id}
  /\ \E calls \in {auto_extract(message)} :
        tasks' = [tasks EXCEPT ![p] =
                    [@ EXCEPT !.pc = IF calls = <<>> THEN "done" ELSE "load",
                              !.outer = [op |-> "auto_extract", message |-> message],
                              !.call = IF calls = <<>> THEN [op |-> "none"] ELSE Head(calls),
                              !.todo = IF calls = <<>> THEN <<>> ELSE Tail(calls),
                              !.id_time = IF calls = <<>> THEN 0 ELSE now,
                              !.writes = 0, !.fault = "none",
                              !.calls = Min(@ + 1, MaxCalls),
                              !.ret = IF calls = <<>> THEN [signal |-> "CONTINUE"]
                                      ELSE [success |-> FALSE]]]
  /\ UNCHANGED <<config, now, store, lastCall, crisisSeen>>

\* store.get answers a mutating handler: get_social_data returns the stored or
\* a fresh profile, and the handler updates it, up to await store.set
Load(p) ==
  /\ tasks[p].pc = "load"
  /\ tasks[p].call.op \notin ReadOps
  /\ \E d \in {get_social_data(tasks[p].user_id)} :
       tasks' = [tasks EXCEPT ![p] =
                   [@ EXCEPT !.pc = "save",
                             !.loaded = SomeProfile(d),
                             !.t_load = now,
                             !.result = handler(tasks[p].call, d, tasks[p].user_id,
                                                tasks[p].id_time, now)]]
  /\ UNCHANGED <<config, now, store, lastCall, crisisSeen>>

\* store.get answers a reading handler, which returns what it reads from the
\* stored or a fresh profile
Read(p) ==
  /\ tasks[p].pc = "load"
  /\ tasks[p].call.op \in ReadOps
  /\ LET ret == read_handler(tasks[p].call, get_social_data(tasks[p].user_id),
                             tasks[p].user_id)
     IN /\ lastCall' = returned(tasks[p].call, tasks[p].user_id, ret)
        /\ tasks' = [tasks EXCEPT ![p] = [@ EXCEPT !.pc = "done", !.ret = ret]]
  /\ UNCHANGED <<config, now, store, crisisSeen>>

\* mutant of LoadFail: the exception is swallowed and the handler goes on with
\* a fresh profile
LoadFail_Fresh(p) ==
  /\ tasks[p].pc = "load"
  /\ \E d \in {SocialData_create(tasks[p].user_id, config.DEFAULT_AFFECTION, now)} :
       tasks' = [tasks EXCEPT ![p] =
                   [@ EXCEPT !.pc = "save", !.fault = "load",
                             !.loaded = SomeProfile(d),
                             !.t_load = now,
                             !.result = handler(tasks[p].call, d, tasks[p].user_id,
                                                tasks[p].id_time, now)]]
  /\ UNCHANGED <<config, now, store, lastCall, crisisSeen>>

\* store.get raises: the handler ends with the exception
LoadFail(p) ==
  /\ tasks[p].pc = "load"
  /\ tasks' = [tasks EXCEPT ![p] =
                 [@ EXCEPT !.pc = "failed", !.fault = "load", !.todo = <<>>]]
  /\ UNCHANGED <<config, now, store, lastCall, crisisSeen>>

\* mutant of saved_result: the handler updates the profile stored at the time
\* of its write
saved_result_Reload(p) ==
  handler(tasks[p].call, get_social_data(tasks[p].user_id), tasks[p].user_id,
          tasks[p].id_time, tasks[p].t_load)

\* what the handler of task p passes to save_social_data and returns: the
\* profile it updated when its load answered
saved_result(p) == tasks[p].result

\* store.set writes the profile the handler updated when the load answered, and
\* the sandbox method returns; auto_extract then enters its next call of
\* record_user_memory, up to await store.get, or returns CONTINUE
Save(p) ==
  /\ tasks[p].pc = "save"
  /\ \E r \in {saved_result(p)} :
       LET task == tasks[p]
           alone == IF task.solo.some THEN task.solo.data
                    ELSE SocialData_create(task.user_id, config.DEFAULT_AFFECTION,
                                           task.t_load)
           more == task.todo # <<>>
       IN /\ store' = save_social_data(task.user_id, r.data)
          /\ lastCall' = returned(task.call, task.user_id, r.ret)
          /\ crisisSeen' =
               IF task.call.op = "record_affection_event"
                 THEN CountCrisis(crisisSeen, task.user_id, task.call.change_amount,
                                  task.call.event_type)
                 ELSE crisisSeen
          /\ tasks' = [tasks EXCEPT ![p] =
                         [@ EXCEPT !.pc = IF more THEN "load" ELSE "done",
                                   !.call = IF more THEN Head(task.todo) ELSE @,
                                   !.todo = IF more THEN Tail(@) ELSE @,
                                   !.id_time = IF more THEN now ELSE @,
                                   !.writes = @ + 1,
                                   !.ret = IF more THEN @
                                           ELSE IF task.outer.op = "auto_extract"
                                             THEN [signal |-> "CONTINUE"]
                                           ELSE r.ret,
                                   !.loaded = NoProfile, !.t_load = 0,
                                   !.result = NoResult,
                                   !.solo = SomeProfile(
                                              handler(task.call, alone, task.user_id,
                                                      task.id_time, task.t_load).data)]]
  /\ UNCHANGED <<config, now>>

\* store.set raises without writing: the handler ends with the exception
SaveFail(p) ==
  /\ tasks[p].pc = "save"
  /\ tasks' = [tasks EXCEPT ![p] =
                 [@ EXCEPT !.pc = "failed", !.fault = "save", !.todo = <<>>,
                           !.loaded = NoProfile, !.t_load = 0, !.result = NoResult]]
  /\ UNCHANGED <<config, now, store, lastCall, crisisSeen>>

(***************************************************************************)
(* Specification of the affection ledger: one task calls                   *)
(* record_affection_event, each call suspended at its load and at its      *)
(* save, under every configuration of the ledger.                          *)
(***************************************************************************)
DefaultMemoryConfig ==
  [RETENTION_DAYS |-> 30, MAX_INJECTED_MEMORIES |-> 5, MIN_IMPORTANCE_SCORE |-> 5]

InitCommon ==
  /\ store = NoStore
  /\ lastCall = [op |-> "none"]
  /\ crisisSeen = [u \in Users |-> 0]
  /\ tasks = [p \in Tasks |-> IdleTask("u1")]

Init ==
  /\ InitCommon
  /\ now = 0
  /\ \E h \in MaxHistoryChoices, d \in DefaultAffectionChoices, e \in BOOLEAN :
       config = [MAX_HISTORY_EVENTS |-> h, DEFAULT_AFFECTION |-> d,
                 ENABLE_BOND_SYSTEM |-> e,
                 RETENTION_DAYS |-> DefaultMemoryConfig.RETENTION_DAYS,
                 MAX_INJECTED_MEMORIES |-> DefaultMemoryConfig.MAX_INJECTED_MEMORIES,
                 MIN_IMPORTANCE_SCORE |-> DefaultMemoryConfig.MIN_IMPORTANCE_SCORE]

Next ==
  \/ \E call \in AffectionCalls : WithinBounds("u1") /\ Call("t1", call)
  \/ Load("t1")
  \/ Save("t1")

Spec == Init /\ [][Next]_vars

(***************************************************************************)
(* Specification of the memory store: one task calls record_user_memory    *)
(* and handles user messages with auto_extract; time passes between the    *)
(* calls and while a call is suspended at its load or at its save.         *)
(***************************************************************************)
DefaultAffectionConfig ==
  [MAX_HISTORY_EVENTS |-> 20, DEFAULT_AFFECTION |-> 0, ENABLE_BOND_SYSTEM |-> TRUE]

InitMem ==
  /\ InitCommon
  /\ now \in FirstSecond
  /\ config = [MAX_HISTORY_EVENTS |-> DefaultAffectionConfig.MAX_HISTORY_EVENTS,
               DEFAULT_AFFECTION |-> DefaultAffectionConfig.DEFAULT_AFFECTION,
               ENABLE_BOND_SYSTEM |-> DefaultAffectionConfig.ENABLE_BOND_SYSTEM,
               RETENTION_DAYS |-> 1,
               MAX_INJECTED_MEMORIES |-> 1,
               MIN_IMPORTANCE_SCORE |-> DefaultMemoryConfig.MIN_IMPORTANCE_SCORE]

NextMem ==
  \/ \E call \in MemoryCalls : Call("t1", call)
  \/ \E message \in Messages : AutoExtract("t1", message)
  \/ Load("t1")
  \/ Save("t1")
  \/ Tick

SpecMem == InitMem /\ [][NextMem]_vars

(***************************************************************************)
(* Specification of the memory section of the prompt: one task calls       *)
(* record_user_memory while time passes, under every configuration of the  *)
(* section.                                                                *)
(***************************************************************************)
InitInject ==
  /\ InitCommon
  /\ now \in FirstSecond
  /\ \E m \in MinImportanceChoices, x \in MaxInjectedChoices :
       config = [MAX_HISTORY_EVENTS |-> DefaultAffectionConfig.MAX_HISTORY_EVENTS,
                 DEFAULT_AFFECTION |-> DefaultAffectionConfig.DEFAULT_AFFECTION,
                 ENABLE_BOND_SYSTEM |-> DefaultAffectionConfig.ENABLE_BOND_SYSTEM,
                 RETENTION_DAYS |-> 1,
                 MAX_INJECTED_MEMORIES |-> x,
                 MIN_IMPORTANCE_SCORE |-> m]

NextInject ==
  \/ \E call \in InjectCalls : Call("t1", call)
  \/ Load("t1")
  \/ Save("t1")
  \/ Tick

SpecInject == InitInject /\ [][NextInject]_vars

(***************************************************************************)
(* Specification of the tier function: one task calls get_affection_state  *)
(* on a user with no stored profile, under every default affection of the  *)
(* range.                                                                  *)
(***************************************************************************)
InitTier ==
  /\ store = NoStore
  /\ lastCall = [op |-> "none"]
  /\ crisisSeen = [u \in Users |-> 0]
  /\ \E u \in Users : tasks = [p \in Tasks |-> IdleTask(u)]
  /\ now = 0
  /\ \E d \in -100..100 :
       config = [MAX_HISTORY_EVENTS |-> DefaultAffectionConfig.MAX_HISTORY_EVENTS,
                 DEFAULT_AFFECTION |-> d,
                 ENABLE_BOND_SYSTEM |-> DefaultAffectionConfig.ENABLE_BOND_SYSTEM,
                 RETENTION_DAYS |-> DefaultMemoryConfig.RETENTION_DAYS,
                 MAX_INJECTED_MEMORIES |-> DefaultMemoryConfig.MAX_INJECTED_MEMORIES,
                 MIN_IMPORTANCE_SCORE |-> DefaultMemoryConfig.MIN_IMPORTANCE_SCORE]

NextTier ==
  \/ Call("t1", [op |-> "get_affection_state"])
  \/ Read("t1")

SpecTier == InitTier /\ [][NextTier]_vars

(***************************************************************************)
(* Specification of the kinds of call together: one task records affection *)
(* events and a memory and reads the affection state of one user, one call *)
(* at a time, under one configuration in which every bond can be unlocked  *)
(* and its predicate can turn false again.                                 *)
(***************************************************************************)
InitAll ==
  /\ InitCommon
  /\ now = 0
  /\ config = [MAX_HISTORY_EVENTS |-> 3, DEFAULT_AFFECTION |-> 70,
               ENABLE_BOND_SYSTEM |-> TRUE,
               RETENTION_DAYS |-> DefaultMemoryConfig.RETENTION_DAYS,
               MAX_INJECTED_MEMORIES |-> DefaultMemoryConfig.MAX_INJECTED_MEMORIES,
               MIN_IMPORTANCE_SCORE |-> DefaultMemoryConfig.MIN_IMPORTANCE_SCORE]

NextAll ==
  \/ \E call \in AllCalls :
       /\ call.op = "record_affection_event" => WithinBounds("u1")
       /\ Call("t1", call)
  \/ Load("t1")
  \/ Read("t1")
  \/ Save("t1")

SpecAll == InitAll /\ [][NextAll]_vars

(***************************************************************************)
(* Specification of concurrent handler calls: two tasks, on the same user  *)
(* or on two users, interleaved at their awaits.                           *)
(***************************************************************************)
\* the start of the last day of the clock: one more instant follows it
LastDay == MaxDays * SecondsPerDay * TicksPerSecond

ConcCalls ==
  { [op |-> "record_affection_event", change_amount |-> c, event_type |-> "positive"] :
      c \in {10, -150} }
    \cup
  { [op |-> "record_user_memory", memory_type |-> "preference", content |-> <<"a">>,
     importance |-> 3],
    [op |-> "record_user_memory", memory_type |-> "habit", content |-> LikeOften,
     importance |-> 8] }

InitConc ==
  /\ store = NoStore
  /\ lastCall = [op |-> "none"]
  /\ crisisSeen = [u \in Users |-> 0]
  /\ now = LastDay
  /\ \E u \in Users : tasks = [p \in Tasks |-> IdleTask(IF p = "t1" THEN "u1" ELSE u)]
  /\ config = [MAX_HISTORY_EVENTS |-> 3,
               DEFAULT_AFFECTION |-> 70,
               ENABLE_BOND_SYSTEM |-> TRUE,
               RETENTION_DAYS |-> 1,
               MAX_INJECTED_MEMORIES |-> DefaultMemoryConfig.MAX_INJECTED_MEMORIES,
               MIN_IMPORTANCE_SCORE |-> DefaultMemoryConfig.MIN_IMPORTANCE_SCORE]

NextConc ==
  \/ \E p \in Tasks, call \in ConcCalls : CallsMade < MaxCalls /\ Call(p, call)
  \/ \E p \in Tasks : Load(p)
  \/ \E p \in Tasks : LoadFail(p)
  \/ \E p \in Tasks : Save(p)
  \/ \E p \in Tasks : SaveFail(p)
  \/ Tick

SpecConc == InitConc /\ [][NextConc]_vars

(***************************************************************************)
(* Specification of the bond switch: one task calls record_affection_event *)
(* and get_bond_info on one user while ENABLE_BOND_SYSTEM is switched off  *)
(* and on, between the calls and while a call is suspended.                *)
(***************************************************************************)
InitBonds ==
  /\ InitCommon
  /\ now = 0
  /\ \E e \in BOOLEAN :
       config = [MAX_HISTORY_EVENTS |-> 3,
                 DEFAULT_AFFECTION |-> 70,
                 ENABLE_BOND_SYSTEM |-> e,
                 RETENTION_DAYS |-> DefaultMemoryConfig.RETENTION_DAYS,
                 MAX_INJECTED_MEMORIES |-> DefaultMemoryConfig.MAX_INJECTED_MEMORIES,
                 MIN_IMPORTANCE_SCORE |-> DefaultMemoryConfig.MIN_IMPORTANCE_SCORE]

NextBonds ==
  \/ \E call \in AffectionCalls :
       /\ call.change_amount \in {10, -150}
       /\ WithinBounds("u1")
       /\ Call("t1", call)
  \/ Call("t1", [op |-> "get_bond_info"])
  \/ Load("t1")
  \/ Read("t1")
  \/ Save("t1")
  \/ Reconfigure

SpecBonds == InitBonds /\ [][NextBonds]_vars

(***************************************************************************)
(* Accessors of the stored profiles, for the properties below.             *)
(***************************************************************************)
\* the stored UserAffection of a user with a profile
Aff(u) == store[u].affection

\* the stored BondStatus.unlocked of bond b of user u (FALSE when there is none)
Unlocked(u, b) ==
  /\ u \in DOMAIN store
  /\ b \in DOMAIN store[u].affection.bonds
  /\ store[u].affection.bonds[b].unlocked

\* the last call was a record_affection_event
IsAffectionCall(call) == call.op = "record_affection_event"

\* the last call was a record_user_memory
IsMemoryCall(call) == call.op = "record_user_memory"

\* task p completes a call of a mutating sandbox method in this step: its
\* store.set has written and the method returns
Saves(p) == tasks[p].pc = "save" /\ tasks'[p].pc \in {"done", "load"}

\* in this step a call of record_affection_event on user u writes and returns
CalledFor(u) ==
  \E p \in Tasks : /\ Saves(p)
                   /\ tasks[p].user_id = u
                   /\ IsAffectionCall(tasks[p].call)

\* in this step a call of record_user_memory on user u writes and returns
MemCalledFor(u) ==
  \E p \in Tasks : /\ Saves(p)
                   /\ tasks[p].user_id = u
                   /\ IsMemoryCall(tasks[p].call)

\* the stored memory records of a user with a profile, in dict order
Mems(u) == store[u].memories

\* membership in a sequence
InSeq(x, seq) == \E i \in 1..Len(seq) : seq[i] = x

(***************************************************************************)
(* Properties.                                                             *)
(***************************************************************************)

\* C1: after any sequence of record_affection_event calls, with change amounts
\* far outside [-20,20] among them, every persisted affection_value lies in
\* [-100,100].
C1_AffectionInRange ==
  \A u \in DOMAIN store :
    Aff(u).affection_value >= -100 /\ Aff(u).affection_value <= 100

\* C1 witness: from the default 70, positive events worth 40 were recorded (110
\* unclamped) and the persisted value is 100.
C1_Witness ==
  /\ "u1" \in DOMAIN store
  /\ config.DEFAULT_AFFECTION = 70
  /\ Aff("u1").total_positive >= 40
  /\ Aff("u1").total_negative = 0
  /\ Aff("u1").affection_value = 100
  /\ IsAffectionCall(lastCall) /\ lastCall.change_amount = 150

\* C2 (as claimed): for every MAX_HISTORY_EVENTS >= 0, 0 included, each call of
\* record_affection_event leaves a history of at most MAX_HISTORY_EVENTS events,
\* namely the most recent ones of the old history followed by the new event.
C2_HistoryCapped ==
  [][\A u \in Users : CalledFor(u) =>
       LET all  == Append(get_social_data(u).affection.events,
                          Aff(u)'.events[Len(Aff(u)'.events)])
           keep == Min(config.MAX_HISTORY_EVENTS, Len(all))
       IN  /\ Len(Aff(u)'.events) <= config.MAX_HISTORY_EVENTS
           /\ Aff(u)'.events = SubSeq(all, Len(all) - keep + 1, Len(all))]_vars

\* C3: record_affection_event(change) applies c = clamp(change, -20, 20): the
\* appended event stores c, total_positive grows by c when c > 0, total_negative
\* by |c| when c < 0, and the new affection_value is
\* clamp(old affection_value + c, -100, 100).
C3_ClampedChangeApplied ==
  [][\A u \in Users : CalledFor(u) =>
       LET x   == lastCall'.change_amount
           c   == IF x > 20 THEN 20 ELSE IF x < -20 THEN -20 ELSE x
           old == get_social_data(u).affection
           new == Aff(u)'
           sum == old.affection_value + c
       IN  /\ new.events # <<>>
           /\ new.events[Len(new.events)].change_amount = c
           /\ new.events[Len(new.events)].event_type = lastCall'.event_type
           /\ new.total_positive = old.total_positive + (IF c > 0 THEN c ELSE 0)
           /\ new.total_negative = old.total_negative + (IF c < 0 THEN -c ELSE 0)
           /\ new.affection_value =
                (IF sum > 100 THEN 100 ELSE IF sum < -100 THEN -100 ELSE sum)
           /\ lastCall'.ret.new_affection = new.affection_value]_vars

\* C3 witness: change = 150 on a fresh user with default 0 raised the value by 20.
C3_Witness ==
  /\ IsAffectionCall(lastCall) /\ lastCall.change_amount = 150
  /\ config.DEFAULT_AFFECTION = 0
  /\ Aff(lastCall.user_id).affection_value = 20
  /\ Aff(lastCall.user_id).total_positive = 20
  /\ Aff(lastCall.user_id).total_negative = 0

\* C4: for every v in [-100,100], get_affection_state reports the band of the
\* tier table with the greatest inclusive lower bound <= v: soulmate for v >= 81,
\* close_friend for 51..80, friend for 11..50, acquaintance for -19..10, stranger
\* for -59..-20, enemy for v <= -60.
C4_TierTable ==
  lastCall.op = "get_affection_state" =>
    LET v  == lastCall.ret.affection_value
        ti == lastCall.ret.tier
    IN  /\ v \in -100..100
        /\ (ti = "soulmate") <=> (v >= 81)
        /\ (ti = "close_friend") <=> (v >= 51 /\ v <= 80)
        /\ (ti = "friend") <=> (v >= 11 /\ v <= 50)
        /\ (ti = "acquaintance") <=> (v >= -19 /\ v <= 10)
        /\ (ti = "stranger") <=> (v >= -59 /\ v <= -20)
        /\ (ti = "enemy") <=> (v <= -60)

\* C4 witness: the boundary v = 11 was read and reported as friend.
C4_Witness ==
  /\ lastCall.op = "get_affection_state"
  /\ lastCall.ret.affection_value = 11
  /\ lastCall.ret.tier = "friend"

\* the total_positive threshold of the three count bonds (section 4.2 of the spec)
PositiveThreshold(b) ==
  CASE b = "shared_laugh" -> 5
    [] b = "deep_conversation" -> 10
    [] b = "trusted_confidant" -> 20

CountBonds == {"shared_laugh", "deep_conversation", "trusted_confidant"}

\* C5: with the bond system enabled, after every record_affection_event the
\* bonds shared_laugh, deep_conversation and trusted_confidant are unlocked iff
\* total_positive >= 5, 10, 20; each switches to unlocked in exactly the call in
\* which total_positive first reaches its threshold, and that call reports it;
\* five +10 events from a fresh user with default 0 give total_positive 50,
\* value 50, tier friend and heart_to_heart locked.
C5_CountBonds ==
  [][\A u \in Users : (CalledFor(u) /\ config.ENABLE_BOND_SYSTEM) =>
       LET old == get_social_data(u).affection
           new == Aff(u)'
       IN  /\ \A b \in CountBonds :
                /\ Unlocked(u, b)' <=> (new.total_positive >= PositiveThreshold(b))
                /\ (Unlocked(u, b)' /\ ~Unlocked(u, b)) <=>
                     (/\ old.total_positive < PositiveThreshold(b)
                      /\ new.total_positive >= PositiveThreshold(b))
                /\ (Unlocked(u, b)' /\ ~Unlocked(u, b)) <=>
                     InSeq(b, lastCall'.ret.unlocked_bonds)
           /\ (/\ config.DEFAULT_AFFECTION = 0
               /\ new.total_negative = 0
               /\ new.total_positive = 50)
                => /\ new.affection_value = 50
                   /\ lastCall'.ret.new_tier = "friend"
                   /\ ~Unlocked(u, "heart_to_heart")']_vars

\* C5 witness: five +10 events on a fresh user with default 0.
C5_Witness ==
  /\ IsAffectionCall(lastCall) /\ lastCall.change_amount = 10
  /\ config.ENABLE_BOND_SYSTEM /\ config.DEFAULT_AFFECTION = 0
  /\ config.MAX_HISTORY_EVENTS = 3
  /\ Aff("u1").total_positive = 50 /\ Aff("u1").total_negative = 0
  /\ \A i \in 1..Len(Aff("u1").events) : Aff("u1").events[i].change_amount = 10
  /\ Aff("u1").affection_value = 50
  /\ \A b \in CountBonds : Unlocked("u1", b)
  /\ ~Unlocked("u1", "heart_to_heart")

\* C6: with the operations on a user run one at a time, a bond whose persisted
\* status is unlocked stays unlocked after every later operation.
C6_UnlockedStays ==
  [][\A u \in Users, b \in BondIds : Unlocked(u, b) => Unlocked(u, b)']_vars

\* C6 witness: heart_to_heart and storm_together are unlocked although the value
\* is below 80 again and no positive crisis event is left in the history.
C6_Witness ==
  /\ Unlocked("u1", "heart_to_heart")
  /\ Aff("u1").affection_value < 80
  /\ Unlocked("u1", "storm_together")
  /\ \A i \in 1..Len(Aff("u1").events) : Aff("u1").events[i].event_type # "crisis"

\* the positive crisis events the stored history of u holds
StoredCrisis(u) ==
  { i \in 1..Len(Aff(u).events) :
      Aff(u).events[i].event_type = "crisis" /\ Aff(u).events[i].change_amount > 0 }

\* C7 (as claimed): with the bond system enabled, storm_together is unlocked by
\* the call that records the user's third crisis event with change_amount > 0,
\* whatever was recorded in between and whatever MAX_HISTORY_EVENTS is.
C7_ThirdCrisisUnlocks ==
  \A u \in DOMAIN store :
    (config.ENABLE_BOND_SYSTEM /\ Aff(u).events # <<>>) =>
      (Unlocked(u, "storm_together") <=> crisisSeen[u] >= 3)

\* C7 (amended): with the bond system enabled, storm_together is unlocked by the
\* first call after which the stored history itself holds at least three crisis
\* events with change_amount > 0; crisis events with change_amount <= 0 never
\* count.
C7_StoredCrisisUnlocks ==
  [][\A u \in Users : (CalledFor(u) /\ config.ENABLE_BOND_SYSTEM) =>
           /\ Cardinality(StoredCrisis(u)') >= 3 => Unlocked(u, "storm_together")'
           /\ (Unlocked(u, "storm_together")' /\ ~Unlocked(u, "storm_together")) =>
                /\ Cardinality(StoredCrisis(u)') >= 3
                /\ InSeq("storm_together", lastCall'.ret.unlocked_bonds)]_vars

\* C7 witness: with a history of three, the third of three positive crisis
\* events in a row unlocked storm_together.
C7_Witness ==
  /\ IsAffectionCall(lastCall) /\ lastCall.event_type = "crisis"
  /\ lastCall.change_amount = 5
  /\ InSeq("storm_together", lastCall.ret.unlocked_bonds)
  /\ config.MAX_HISTORY_EVENTS = 3
  /\ crisisSeen["u1"] = 3
  /\ Unlocked("u1", "storm_together")

\* C8: after any sequence of record_user_memory calls the profile holds at most
\* one record per exact content; a call whose content equals an existing
\* record's adds no record, returns that record's id with the merged outcome,
\* raises the stored importance when the new one is strictly greater and leaves
\* it unchanged otherwise (and changes no other record).
C8_OneRecordPerContent ==
  [][\A u \in Users : MemCalledFor(u) =>
       LET old == get_social_data(u).memories
           new == Mems(u)'
           c   == lastCall'.content
           imp == lastCall'.importance
           dup == { i \in 1..Len(old) : old[i].content = c }
       IN  /\ \A i, j \in 1..Len(new) : new[i].content = new[j].content => i = j
           /\ dup # {} =>
                /\ Len(new) = Len(old)
                /\ lastCall'.ret.message = "updated"
                /\ \A i \in 1..Len(old) :
                     IF i \in dup
                       THEN /\ lastCall'.ret.memory_id = old[i].memory_id
                            /\ new[i].memory_id = old[i].memory_id
                            /\ new[i].importance =
                                 (IF imp > old[i].importance
                                    THEN imp ELSE old[i].importance)
                       ELSE new[i] = old[i]
           /\ dup = {} =>
                /\ Len(new) = Len(old) + 1
                /\ lastCall'.ret.message = "recorded"
                /\ new[Len(new)].content = c
                /\ new[Len(new)].memory_id = lastCall'.ret.memory_id]_vars

\* C8 witness: "a" was recorded with importance 4 and later again, at another
\* time, with importance 50: one record, now of importance 50 (the merge stores
\* the larger value as given, see C9), under its first id.
C8_Witness ==
  /\ IsMemoryCall(lastCall) /\ lastCall.content = <<"a">> /\ lastCall.importance = 50
  /\ lastCall.ret.message = "updated"
  /\ Len(Mems("u1")) = 1
  /\ Mems("u1")[1].importance = 50
  /\ Mems("u1")[1].memory_id = lastCall.ret.memory_id
  /\ lastCall.ret.memory_id.time < now

\* C9 (as claimed): every stored memory record has importance in [0,10] after
\* any sequence of record_user_memory calls, whether a call creates or merges.
C9_ImportanceInRange ==
  \A u \in DOMAIN store : \A i \in 1..Len(Mems(u)) :
    Mems(u)[i].importance >= 0 /\ Mems(u)[i].importance <= 10

\* arguments the read operations are tried with
FilterChoices == { {}, {"preference"}, {"note"} }
MinImportanceArgs == {0, 5}
LimitArgs == {0, 2}
Keywords == { <<>>, <<"a">>, <<"o", "F">> }

\* record i of user u is live: now <= expires_at
Live(u, i) == now <= Mems(u)[i].expires_at * TicksPerSecond

\* record i of user u is returned by the unfiltered query (no types, minimum 0,
\* a limit of the number of stored records)
InQuery(u, i) ==
  InSeq(Mems(u)[i],
        query_user_memory(get_social_data(u), {}, 0, Len(Mems(u)), now))

\* record i of user u is returned by the search for its own content
InSearch(u, i) ==
  InSeq(Mems(u)[i],
        search_user_memory(get_social_data(u), Mems(u)[i].content, {},
                           Len(Mems(u)), now))

\* record i of user u is listed in the memory section of the injected prompt
InInject(u, i) == InSeq(Mems(u)[i], inject_memories(get_social_data(u), now))

\* record i of user u is returned by some query or search, whatever its arguments
InSomeResult(u, i) ==
  \/ \E f \in FilterChoices, mi \in MinImportanceArgs, l \in LimitArgs :
       InSeq(Mems(u)[i], query_user_memory(get_social_data(u), f, mi, l, now))
  \/ \E k \in Keywords, f \in FilterChoices, l \in LimitArgs :
       InSeq(Mems(u)[i], search_user_memory(get_social_data(u), k, f, l, now))

\* the records of user u that qualify for the memory section
Qualifying(u) ==
  { i \in 1..Len(Mems(u)) :
      Live(u, i) /\ Mems(u)[i].importance >= config.MIN_IMPORTANCE_SCORE }

\* the state part of C10
C10_State ==
  \A u \in DOMAIN store : \A i \in 1..Len(Mems(u)) :
    /\ Mems(u)[i].expires_at =
         Mems(u)[i].created_at + (config.RETENTION_DAYS * SecondsPerDay)
    /\ InQuery(u, i) <=> Live(u, i)
    /\ InSearch(u, i) <=> Live(u, i)
    /\ InInject(u, i) => Live(u, i)
    /\ InSomeResult(u, i) => Live(u, i)
    /\ (i \in Qualifying(u)
          /\ Cardinality(Qualifying(u)) <= config.MAX_INJECTED_MEMORIES)
         => InInject(u, i)

\* C10: a memory record is returned by query_user_memory and search_user_memory
\* and listed in the memory section of the prompt only while now <= expires_at:
\* it is live at its creation (and visible when the call that created it
\* returns at that instant) and, once the time is past created_at +
\* RETENTION_DAYS days, in none of the three, although no operation removes it
\* from the stored profile.
C10_VisibleUntilExpiry ==
  /\ []C10_State
  /\ [][/\ \A p \in Tasks :
             (/\ Saves(p)
              /\ IsMemoryCall(tasks[p].call)
              /\ lastCall'.ret.message = "recorded") =>
               \E u \in {tasks[p].user_id} : \E last \in 1..Len(Mems(u)') :
                 /\ last = Len(Mems(u)')
                 /\ Mems(u)'[last].created_at = IntTime(tasks[p].t_load)
                 /\ tasks[p].t_load <= Mems(u)'[last].expires_at * TicksPerSecond
                 /\ now = tasks[p].t_load =>
                      /\ Live(u, last)'
                      /\ InQuery(u, last)'
                      /\ InSearch(u, last)'
        /\ \A u \in DOMAIN store :
             /\ u \in DOMAIN store'
             /\ Len(Mems(u)') >= Len(Mems(u))
             /\ \A i \in 1..Len(Mems(u)) :
                  /\ Mems(u)'[i].memory_id = Mems(u)[i].memory_id
                  /\ Mems(u)'[i].content = Mems(u)[i].content
                  /\ Mems(u)'[i].expires_at = Mems(u)[i].expires_at]_vars

\* C10 witness: a record past its expiry is still stored and in no result, next
\* to a live one that is returned.
C10_Witness ==
  /\ "u1" \in DOMAIN store
  /\ Len(Mems("u1")) = 2
  /\ ~Live("u1", 1) /\ ~InQuery("u1", 1) /\ ~InSearch("u1", 1) /\ ~InInject("u1", 1)
  /\ Live("u1", 2) /\ InQuery("u1", 2) /\ InSearch("u1", 2)

\* the sum of the values of a function of numbers
RECURSIVE SumOf(_)
SumOf(f) ==
  IF DOMAIN f = {} THEN 0
  ELSE LET k == CHOOSE x \in DOMAIN f : TRUE
       IN f[k] + SumOf([x \in DOMAIN f \ {k} |-> f[x]])

\* C11: get_user_summary counts no expired record: every per-type count and the
\* total count only records with expires_at >= now, so that the total equals the
\* sum of the per-type counts.
C11_SummaryExcludesExpired ==
  \A u \in DOMAIN store :
    LET s == get_user_summary(get_social_data(u), now)
        live == { i \in 1..Len(Mems(u)) : Live(u, i) }
    IN /\ \A ty \in DOMAIN s.by_type :
            s.by_type[ty] =
              Cardinality({ i \in live : Mems(u)[i].memory_type = ty })
       /\ s.total_memories = Cardinality(live)
       /\ s.total_memories = SumOf(s.by_type)

\* record a ranks no later than record b: importance descending, then
\* created_at descending
RanksBefore(a, b) ==
  \/ a.importance > b.importance
  \/ a.importance = b.importance /\ a.created_at >= b.created_at

\* list is a selection of `count` of the records in `pool`, the best ranked
\* ones, best first, each once
TopRanked(list, pool, count) ==
  /\ Len(list) = count
  /\ \A k \in 1..Len(list) : list[k] \in pool
  /\ \A j, k \in 1..Len(list) : j < k =>
       list[j] # list[k] /\ RanksBefore(list[j], list[k])
  /\ \A m \in pool : (\A k \in 1..Len(list) : list[k] # m) =>
       \A k \in 1..Len(list) : RanksBefore(list[k], m)

\* C12: under every MAX_INJECTED_MEMORIES >= 0 and MIN_IMPORTANCE_SCORE the
\* memory section of the injected prompt lists at most MAX_INJECTED_MEMORIES
\* records, each live and of importance >= MIN_IMPORTANCE_SCORE: the best
\* ranked qualifying ones (importance descending, then created_at descending),
\* best first; the section is omitted when no record is listed, so when no
\* record qualifies.
C12_InjectedTop ==
  \A u \in DOMAIN store :
    LET listed == inject_memories(get_social_data(u), now)
        section == memory_section(get_social_data(u), now)
        pool == { Mems(u)[i] : i \in Qualifying(u) }
    IN /\ Len(listed) <= config.MAX_INJECTED_MEMORIES
       /\ \A k \in 1..Len(listed) :
            listed[k].importance >= config.MIN_IMPORTANCE_SCORE
       /\ TopRanked(listed, pool,
                    Min(config.MAX_INJECTED_MEMORIES, Cardinality(pool)))
       /\ (pool = {} => section = <<>>)
       /\ (section = <<>>) <=> (listed = <<>>)
       /\ section # <<>> =>
            /\ Len(section) = Len(listed) + 1
            /\ \A k \in 1..Len(listed) : section[k + 1].content = listed[k].content

\* C12 witness: two qualifying records of equal importance, created in
\* different seconds, the older stored first; with MAX_INJECTED_MEMORIES = 1 the
\* younger one is the only one listed.
C12_Witness ==
  /\ "u1" \in DOMAIN store
  /\ Cardinality(Qualifying("u1")) = 2
  /\ config.MAX_INJECTED_MEMORIES = 1
  /\ config.MIN_IMPORTANCE_SCORE = 5
  /\ Len(Mems("u1")) = 2
  /\ Mems("u1")[2].importance = Mems("u1")[1].importance
  /\ Mems("u1")[2].created_at > Mems("u1")[1].created_at
  /\ inject_memories(get_social_data("u1"), now) = <<Mems("u1")[2]>>
  /\ Len(memory_section(get_social_data("u1"), now)) = 2

\* limits query_user_memory is tried with
QueryLimits == {0, 1, 2, 3}

\* the records of user u that query_user_memory(memory_types, min_importance)
\* is to select from: live, of a requested type, of at least min_importance
Matching(u, memory_types, min_importance) ==
  { Mems(u)[i] : i \in
      { j \in 1..Len(Mems(u)) :
          /\ Live(u, j)
          /\ (memory_types = {} \/ Mems(u)[j].memory_type \in memory_types)
          /\ Mems(u)[j].importance >= min_importance } }

\* C13: query_user_memory(memory_types, min_importance, limit) with limit >= 0
\* returns exactly the first `limit` records (all of them if there are fewer) of
\* the list of the live records of a requested type and of importance >=
\* min_importance, ordered by importance descending, then created_at descending.
C13_QueryTop ==
  \A u \in DOMAIN store :
    \A f \in FilterChoices, mi \in MinImportanceArgs, l \in QueryLimits :
      TopRanked(query_user_memory(get_social_data(u), f, mi, l, now),
                Matching(u, f, mi),
                Min(l, Cardinality(Matching(u, f, mi))))

\* C13 witness: two live records of equal importance, the older stored first;
\* the query with limit 1 returns the younger one only, with limit 2 both, the
\* younger first.
C13_Witness ==
  /\ "u1" \in DOMAIN store
  /\ Len(Mems("u1")) = 2
  /\ Live("u1", 1) /\ Live("u1", 2)
  /\ Mems("u1")[1].importance = Mems("u1")[2].importance
  /\ Mems("u1")[1].created_at < Mems("u1")[2].created_at
  /\ query_user_memory(get_social_data("u1"), {}, 0, 1, now) = <<Mems("u1")[2]>>
  /\ query_user_memory(get_social_data("u1"), {}, 0, 2, now)
       = <<Mems("u1")[2], Mems("u1")[1]>>

\* limits search_user_memory is tried with
SearchLimits == {0, 1, 2}

\* the live records of user u of a requested type whose content contains the
\* keyword whatever the case, in store order
Found(u, keyword, memory_types) ==
  SelectSeq(Mems(u),
            LAMBDA m : /\ now <= m.expires_at * TicksPerSecond
                       /\ (memory_types = {} \/ m.memory_type \in memory_types)
                       /\ contains(lower(keyword), lower(m.content)))

\* C14: search_user_memory returns, for every limit >= 0 (0 included), at most
\* `limit` records: the first `limit` live records of a requested type, in store
\* order, whose content contains the keyword whatever the case.
C14_SearchFirst ==
  \A u \in DOMAIN store :
    \A k \in Keywords, f \in FilterChoices, l \in SearchLimits :
      LET results == search_user_memory(get_social_data(u), k, f, l, now)
      IN /\ Len(results) <= l
         /\ results = SubSeq(Found(u, k, f), 1, Min(l, Len(Found(u, k, f))))

\* limits get_interaction_history is tried with
HistoryLimits == {0, 1, 3}

\* C15: get_interaction_history(user_id, limit) returns, for every limit >= 0
\* (0 included), exactly the min(limit, length of the history) most recent
\* events, oldest first.
C15_HistoryRecent ==
  \A u \in DOMAIN store : \A l \in HistoryLimits :
    LET events == Aff(u).events
        history == get_interaction_history(get_social_data(u), l)
        count == Min(l, Len(events))
    IN /\ Len(history) = count
       /\ \A k \in 1..Len(history) :
            /\ Len(events) - Len(history) + k \in 1..Len(events)
            /\ history[k] = events[Len(events) - Len(history) + k]

\* C16: for a user without a stored profile every read operation answers, and
\* with a fresh profile: affection_value = DEFAULT_AFFECTION, the tier of that
\* value, totals 0, an empty history, no memory, no unlocked bond.
C16_FreshProfile ==
  /\ \A u \in Users \ DOMAIN store :
       LET d == get_social_data(u)
           s == get_user_summary(d, now)
           b == get_bond_info(d).ret
       IN /\ get_affection_state(u, d) =
               [user_id |-> u,
                affection_value |-> config.DEFAULT_AFFECTION,
                tier |-> get_tier(config.DEFAULT_AFFECTION),
                total_positive |-> 0,
                total_negative |-> 0,
                unlocked_bonds |-> <<>>]
          /\ \A l \in HistoryLimits : get_interaction_history(d, l) = <<>>
          /\ b.total_bonds = Len(BondOrder) /\ b.unlocked_count = 0
          /\ \A k \in 1..Len(b.bonds) : ~b.bonds[k].unlocked
          /\ \A f \in FilterChoices, mi \in MinImportanceArgs, l \in QueryLimits :
               query_user_memory(d, f, mi, l, now) = <<>>
          /\ \A k \in Keywords, f \in FilterChoices, l \in SearchLimits :
               search_user_memory(d, k, f, l, now) = <<>>
          /\ s.total_memories = 0 /\ s.total_events = 0
          /\ \A ty \in DOMAIN s.by_type : s.by_type[ty] = 0
          /\ s.affection = config.DEFAULT_AFFECTION
          /\ s.tier = get_tier(config.DEFAULT_AFFECTION)
          /\ s.unlocked_bonds = <<>>
          /\ memory_section(d, now) = <<>>
          /\ bonds_section(d) = <<>>
  /\ \A u \in Users \ DOMAIN store :
       (lastCall.op = "get_affection_state" /\ lastCall.user_id = u) =>
         /\ lastCall.ret.affection_value = config.DEFAULT_AFFECTION
         /\ lastCall.ret.tier = get_tier(config.DEFAULT_AFFECTION)
         /\ lastCall.ret.total_positive = 0 /\ lastCall.ret.total_negative = 0
         /\ lastCall.ret.unlocked_bonds = <<>>

\* C16 witness: get_affection_state has answered for the unseen user u2 under
\* DEFAULT_AFFECTION = 70, with the tier of 70.
C16_Witness ==
  /\ "u2" \notin DOMAIN store
  /\ config.DEFAULT_AFFECTION = 70
  /\ lastCall.op = "get_affection_state" /\ lastCall.user_id = "u2"
  /\ lastCall.ret.affection_value = 70
  /\ lastCall.ret.tier = "close_friend"

\* C17: no concurrency control: when two calls on the same user both load
\* before either saves, the later save overwrites the earlier one.  Every save
\* leaves as the persisted profile the handler's result on the profile its own
\* call loaded, whatever has been saved since that load, and the call returns
\* success.
C17_LaterSaveOverwrites ==
  [][\A p \in Tasks : Saves(p) =>
       /\ store'[tasks[p].user_id] =
            model_dump_json(handler(tasks[p].call, tasks[p].loaded.data,
                                    tasks[p].user_id, tasks[p].id_time,
                                    tasks[p].t_load).data)
       /\ tasks'[p].ret.success]_vars

\* C17 witness: two calls of record_affection_event(+10) on u1 have both
\* returned success, and the persisted profile holds one event and a total of 10.
C17_Witness ==
  /\ \A p \in Tasks :
       /\ tasks[p].user_id = "u1" /\ tasks[p].pc = "done" /\ tasks[p].calls = 1
       /\ tasks[p].call.op = "record_affection_event"
       /\ tasks[p].call.change_amount = 10
       /\ tasks[p].ret.success
  /\ Len(Aff("u1").events) = 1
  /\ Aff("u1").total_positive = 10
  /\ Aff("u1").affection_value = 80

\* task p takes a step
Steps(p) == tasks'[p] # tasks[p]

\* no other task calls for the user of task p
OwnUser(p) == \A q \in Tasks \ {p} : tasks[q].user_id # tasks[p].user_id

\* the state part of C18: the persisted profile of a user whose calls all come
\* from one task is the profile those calls save when run alone, in their order
C18_State ==
  \A p \in Tasks : OwnUser(p) =>
    IF tasks[p].solo.some
      THEN /\ tasks[p].user_id \in DOMAIN store
           /\ get_social_data(tasks[p].user_id) = tasks[p].solo.data
      ELSE tasks[p].user_id \notin DOMAIN store

\* C18: profiles are per-user state.  Under every interleaving a step of a call
\* on user A neither changes nor creates the persisted profile of a user B # A,
\* what the call loads is A's stored profile (or A's fresh one), and the
\* persisted profile of each user is the one its own calls produce when run
\* alone in their order.
C18_UsersIndependent ==
  /\ []C18_State
  /\ [][\A p \in Tasks : Steps(p) =>
          /\ \A v \in Users \ {tasks[p].user_id} :
               /\ (v \in DOMAIN store') <=> (v \in DOMAIN store)
               /\ v \in DOMAIN store => store'[v] = store[v]
          /\ (tasks[p].pc = "load" /\ tasks'[p].pc = "save") =>
               tasks'[p].loaded.data =
                 IF tasks[p].user_id \in DOMAIN store
                   THEN model_validate_json(store[tasks[p].user_id])
                   ELSE SocialData_create(tasks[p].user_id,
                                          config.DEFAULT_AFFECTION, now)]_vars

\* C18 witness: task t1 has made two calls on u1 and task t2 one on u2, all
\* returned; both profiles are stored, differ, and are those of the solo runs.
C18_Witness ==
  /\ tasks["t1"].user_id = "u1" /\ tasks["t2"].user_id = "u2"
  /\ tasks["t1"].pc = "done" /\ tasks["t1"].calls = 2
  /\ tasks["t2"].pc = "done" /\ tasks["t2"].calls = 1
  /\ DOMAIN store = {"u1", "u2"}
  /\ Len(Aff("u1").events) = 2 /\ Len(Aff("u2").events) = 1
  /\ get_social_data("u1") = tasks["t1"].solo.data
  /\ get_social_data("u2") = tasks["t2"].solo.data

\* the state part of C19: a call has written once when it has returned, and
\* not at all before or when its load or its write has failed
C19_State ==
  \A p \in Tasks :
    /\ tasks[p].pc = "done" => tasks[p].writes = 1 /\ tasks[p].fault = "none"
    /\ tasks[p].pc \in {"load", "save"} => tasks[p].writes = 0
    /\ tasks[p].pc = "failed" => tasks[p].writes = 0 /\ tasks[p].fault # "none"
    /\ tasks[p].fault # "none" => tasks[p].pc = "failed" /\ ~tasks[p].ret.success

\* the profile written for an affection call carries every update of the call:
\* the event, the clamped value and, the bond system enabled, the evaluated bonds
AffectionWritten(call, before, after) ==
  /\ after.events # <<>>
  /\ after.events[Len(after.events)].change_amount = ClampChange(call.change_amount)
  /\ after.events[Len(after.events)].event_type = call.event_type
  /\ after.affection_value =
       ClampAffection(before.affection_value + ClampChange(call.change_amount))
  /\ config.ENABLE_BOND_SYSTEM =>
       /\ DOMAIN after.bonds = BondIds
       /\ \A b \in BondIds : should_unlock(after, b) => after.bonds[b].unlocked

\* C19: a mutating operation performs exactly one store write, issued after all
\* its in-memory updates; when its load or that write fails, the operation fails
\* and leaves the persisted profile as it was.
C19_OneWriteOrNone ==
  /\ []C19_State
  /\ [][/\ store' # store =>
             \E p \in Tasks :
               /\ Saves(p)
               /\ store' = save_social_data(tasks[p].user_id,
                                            model_validate_json(store'[tasks[p].user_id]))
               /\ tasks[p].call.op = "record_affection_event" =>
                    AffectionWritten(tasks[p].call, tasks[p].loaded.data.affection,
                                     store'[tasks[p].user_id].affection)
               /\ tasks[p].call.op = "record_user_memory" =>
                    \E i \in 1..Len(store'[tasks[p].user_id].memories) :
                      /\ store'[tasks[p].user_id].memories[i].content
                           = tasks[p].call.content
                      /\ store'[tasks[p].user_id].memories[i].importance
                           >= tasks[p].call.importance
        /\ \A p \in Tasks : Saves(p) => tasks'[p].writes = 1
        /\ \A p \in Tasks :
             (Steps(p) /\ tasks'[p].fault # "none") =>
               store' = store /\ tasks'[p].pc = "failed"]_vars

\* C19 witness: the second call of task t1 on u1 has failed in its write after
\* the first one returned; the persisted profile is that of the first call.
C19_Witness ==
  /\ tasks["t1"].user_id = "u1" /\ tasks["t2"].user_id = "u2"
  /\ tasks["t1"].calls = 2
  /\ tasks["t1"].pc = "failed" /\ tasks["t1"].fault = "save"
  /\ tasks["t1"].call.op = "record_affection_event"
  /\ "u1" \in DOMAIN store
  /\ get_social_data("u1") = tasks["t1"].solo.data
  /\ Len(Aff("u1").events) = 1

\* the persisted bonds map of user u (empty when u has no stored profile)
StoredBonds(u) == IF u \in DOMAIN store THEN store[u].affection.bonds ELSE NoBonds

\* C20: with ENABLE_BOND_SYSTEM false no operation creates or changes an entry
\* of the persisted bonds map, record_affection_event reports an empty
\* unlocked_bonds list, and the injected prompt has no bonds section.  A call
\* of record_affection_event reads the switch when its load answers: read as
\* false, the bonds map it saves is the one it loaded and it returns an empty
\* list; no other operation writes the bonds map.
C20_BondsOff ==
  /\ [](~config.ENABLE_BOND_SYSTEM =>
          \A u \in Users : bonds_section(get_social_data(u)) = <<>>)
  /\ [][/\ \A p \in Tasks :
             (/\ tasks[p].pc = "load" /\ tasks'[p].pc = "save"
              /\ IsAffectionCall(tasks[p].call)
              /\ ~config.ENABLE_BOND_SYSTEM) =>
               /\ tasks'[p].result.data.affection.bonds = StoredBonds(tasks[p].user_id)
               /\ tasks'[p].result.ret.unlocked_bonds = <<>>
        /\ \A p \in Tasks : Saves(p) =>
             /\ StoredBonds(tasks[p].user_id)' = tasks[p].result.data.affection.bonds
             /\ lastCall'.ret = tasks[p].result.ret
        /\ \A u \in Users : StoredBonds(u)' # StoredBonds(u) => CalledFor(u)]_vars

\* C20 witness: the bond system off, a call of record_affection_event has taken
\* total_positive of u1 to 5 or more and reported no bond; shared_laugh stays
\* locked in the stored map, which holds first_meet unlocked from the time the
\* system was on, and the prompt has no bonds section.
C20_Witness ==
  /\ ~config.ENABLE_BOND_SYSTEM
  /\ "u1" \in DOMAIN store
  /\ IsAffectionCall(lastCall) /\ lastCall.ret.unlocked_bonds = <<>>
  /\ lastCall.ret.new_affection = Aff("u1").affection_value
  /\ Aff("u1").total_positive = 10
  /\ Unlocked("u1", "first_meet") /\ ~Unlocked("u1", "shared_laugh")
  /\ bonds_section(get_social_data("u1")) = <<>>

\* what get_bond_info reports for user u
BondInfo(u) == get_bond_info(get_social_data(u)).ret.bonds

\* C21: in every reachable state, negative affection_value included,
\* get_bond_info reports for each of the six bonds a progress between 0% and
\* 100% (progress is counted in tenths of a percent).
C21_ProgressInRange ==
  \A u \in DOMAIN store :
    /\ Len(BondInfo(u)) = 6
    /\ \A k \in 1..Len(BondInfo(u)) :
         BondInfo(u)[k].progress >= 0 /\ BondInfo(u)[k].progress <= 1000

\* C22: whenever record_user_memory(user, content = c) returns success, recorded
\* or updated, the query that follows at once (no time has passed since the
\* call loaded the profile), with no type filter, minimum importance 0 and a
\* limit of the number of stored records, returns a record of content c, also
\* when an expired record of content c was already stored.
C22_RecordedIsFound ==
  [][\A p \in Tasks :
       (/\ Saves(p)
        /\ IsMemoryCall(tasks[p].call)
        /\ now = tasks[p].t_load
        /\ lastCall'.ret.success) =>
         \E i \in 1..Len(Mems(tasks[p].user_id)') :
           /\ Mems(tasks[p].user_id)'[i].content = tasks[p].call.content
           /\ InQuery(tasks[p].user_id, i)']_vars

\* the predicate of bond b holds on the stored ledger of user u
PredicateHolds(u, b) ==
  CASE b = "first_meet" -> TRUE
    [] b \in CountBonds -> Aff(u).total_positive >= PositiveThreshold(b)
    [] b = "storm_together" -> Cardinality(StoredCrisis(u)) >= 3
    [] b = "heart_to_heart" -> Aff(u).affection_value >= 80

\* C23 (as claimed): in every reachable state every bond that get_bond_info
\* reports as unlocked is reported with progress 100%.
C23_UnlockedAtFull ==
  \A u \in DOMAIN store : \A k \in 1..Len(BondInfo(u)) :
    BondInfo(u)[k].unlocked => BondInfo(u)[k].progress = 1000

\* C23 (amended): get_bond_info reports progress 100% for a bond exactly when the
\* bond's predicate holds on the current ledger, unlocked or not; an unlocked
\* first_meet, shared_laugh, deep_conversation or trusted_confidant is always at
\* 100%, while an unlocked heart_to_heart or storm_together is below 100% once
\* affection_value is under 80 or fewer than three positive crisis events are
\* left in the history.
C23_ProgressFollowsLedger ==
  \A u \in DOMAIN store : \A k \in 1..Len(BondInfo(u)) :
    LET entry == BondInfo(u)[k]
    IN /\ entry.bond_id = BondOrder[k]
       /\ entry.unlocked <=> Unlocked(u, entry.bond_id)
       /\ (entry.progress = 1000) <=> PredicateHolds(u, entry.bond_id)
       /\ entry.progress <= 1000
       /\ (entry.unlocked /\ entry.bond_id \in CountBonds \cup {"first_meet"})
            => entry.progress = 1000

\* C23 witness: heart_to_heart is unlocked and reported at 75% after the
\* affection fell from 80 to 60; shared_laugh is unlocked and at 100%.
C23_Witness ==
  /\ "u1" \in DOMAIN store
  /\ Aff("u1").affection_value = 60
  /\ BondInfo("u1")[6].bond_id = "heart_to_heart"
  /\ BondInfo("u1")[6].unlocked /\ BondInfo("u1")[6].progress = 750
  /\ BondInfo("u1")[2].bond_id = "shared_laugh"
  /\ BondInfo("u1")[2].unlocked /\ BondInfo("u1")[2].progress = 1000

\* C24: with the record_affection_event calls on a user run one at a time, a
\* call reports in unlocked_bonds exactly the bonds whose persisted status it
\* changes from locked to unlocked, each once, and an empty list when it changes
\* none; as no step locks a bond again, each bond id is reported by at most one
\* call over the lifetime of the user.
C24_ReportedOnce ==
  [][\A u \in Users :
       /\ \A b \in BondIds : Unlocked(u, b) => Unlocked(u, b)'
       /\ CalledFor(u) =>
            LET reported == lastCall'.ret.unlocked_bonds
            IN /\ \A b \in BondIds :
                    InSeq(b, reported) <=> (~Unlocked(u, b) /\ Unlocked(u, b)')
               /\ \A j, k \in 1..Len(reported) : j # k => reported[j] # reported[k]
               /\ (\A b \in BondIds : Unlocked(u, b)' <=> Unlocked(u, b))
                    => reported = <<>>]_vars

\* C24 witness: a call on u1 has reported nothing although bonds are unlocked,
\* among them shared_laugh, which an earlier call reported.
C24_Witness ==
  /\ IsAffectionCall(lastCall) /\ lastCall.user_id = "u1"
  /\ lastCall.ret.unlocked_bonds = <<>>
  /\ config.ENABLE_BOND_SYSTEM
  /\ Unlocked("u1", "shared_laugh") /\ Unlocked("u1", "first_meet")
  /\ Len(Aff("u1").events) >= 2

\* bond b is unlocked in the profile task p has loaded
LoadedUnlocked(p, b) ==
  /\ tasks[p].loaded.some
  /\ b \in DOMAIN tasks[p].loaded.data.affection.bonds
  /\ tasks[p].loaded.data.affection.bonds[b].unlocked

\* C25 (as claimed): under any interleaving of record_affection_event calls on
\* the same user the persisted unlocked flag of a bond never changes from true
\* back to false.
C25_NeverRelocked ==
  [][\A p \in Tasks :
       (Saves(p) /\ tasks[p].call.op = "record_affection_event") =>
         \A b \in BondIds :
           Unlocked(tasks[p].user_id, b) => Unlocked(tasks[p].user_id, b)']_vars

\* C25 (amended): the persisted unlocked flag of a bond changes from true back
\* to false only by the save of a call on that user that loaded the profile
\* while the bond was still locked, and whose own evaluation does not unlock
\* it; a call that loaded the bond unlocked saves it unlocked.
C25_RelockedByStaleSave ==
  [][\A u \in Users, b \in BondIds :
       /\ (Unlocked(u, b) /\ ~Unlocked(u, b)') =>
            \E p \in Tasks :
              /\ Saves(p) /\ tasks[p].user_id = u
              /\ ~LoadedUnlocked(p, b)
       /\ \A p \in Tasks :
            (Saves(p) /\ tasks[p].user_id = u /\ LoadedUnlocked(p, b))
              => Unlocked(u, b)']_vars

\* C25 witness: the call of task t2 on u1 returned heart_to_heart as unlocked,
\* the call of task t1, which had loaded before, has saved since, and the
\* persisted heart_to_heart is locked.
C25_Witness ==
  /\ \A p \in Tasks : tasks[p].user_id = "u1" /\ tasks[p].pc = "done"
  /\ tasks["t2"].call.op = "record_affection_event"
  /\ InSeq("heart_to_heart", tasks["t2"].ret.unlocked_bonds)
  /\ tasks["t1"].call.op = "record_affection_event"
  /\ "u1" \in DOMAIN store
  /\ "heart_to_heart" \in DOMAIN Aff("u1").bonds
  /\ ~Unlocked("u1", "heart_to_heart")
  /\ Aff("u1").affection_value = 50

\* the records of a profile have pairwise different contents
DistinctContents(memories) ==
  \A i, j \in 1..Len(memories) : memories[i].content = memories[j].content => i = j

\* C26: under any interleaving of record_user_memory calls on the same user,
\* calls of identical content that all load before any of them saves included,
\* every persisted profile, and every profile a call has loaded, holds at most
\* one record per exact content; the save of a call of content c leaves exactly
\* one record of content c.
C26_OnePerContentInterleaved ==
  /\ [](/\ \A u \in DOMAIN store : DistinctContents(Mems(u))
        /\ \A p \in Tasks : tasks[p].loaded.some =>
             DistinctContents(tasks[p].loaded.data.memories))
  /\ [][\A p \in Tasks :
          (Saves(p) /\ tasks[p].call.op = "record_user_memory") =>
            Cardinality({ i \in 1..Len(Mems(tasks[p].user_id)') :
                            Mems(tasks[p].user_id)'[i].content
                              = tasks[p].call.content }) = 1]_vars

\* C26 witness: two calls of content "a" on u1, entered at different instants,
\* both loaded the empty profile, both created a record and returned its id;
\* the persisted profile holds one record of content "a", the later saver's.
C26_Witness ==
  /\ \A p \in Tasks :
       /\ tasks[p].user_id = "u1" /\ tasks[p].pc = "done" /\ tasks[p].calls = 1
       /\ tasks[p].call.op = "record_user_memory"
       /\ tasks[p].call.content = <<"a">>
       /\ tasks[p].ret.success /\ tasks[p].ret.message = "recorded"
  /\ tasks["t1"].ret.memory_id # tasks["t2"].ret.memory_id
  /\ Len(Mems("u1")) = 1
  /\ Mems("u1")[1].content = <<"a">>

====
